---- MODULE Spec2Model ----
(***************************************************************************)
(* Live-session signaling relay of the Digi_Kul teachers portal            *)
(* (src/app.py): the room registry active_sessions, the participant        *)
(* tracker session_participants, the Socket.IO rooms, the socket event     *)
(* handlers and the deferred cleanup timer.                                *)
(***************************************************************************)
EXTENDS Integers, FiniteSets, Sequences, TLC

(* ---------------------------------------------------------------------- *)
(* Bounds and the finite universe of inputs                                *)
(* ---------------------------------------------------------------------- *)

\* Pending threading.Timer objects per session id that the model follows.
MaxTimers == 2

\* Python's None (a missing field of an event, a missing session key).
NoValue == "None"

\* Accounts of the data store (utils.database, an external collaborator).
Users == {"T1", "U1"}

UserType == [T1 |-> "teacher", U1 |-> "student"]

UserName == [T1 |-> "Teacher One", U1 |-> "Student One"]

\* Lectures of the data store and the teacher owning each.  L2 belongs to
\* T2, a teacher account that takes no part: T2 never logs in.
Lectures == {"L1", "L2"}

LectureOwner == [L1 |-> "T1", L2 |-> "T2"]

\* The values uuid.uuid4().hex[:8] is drawn from.
Uuids == {"a", "b"}

\* Socket.IO connections (request.sid).  Each carries the Flask cookie
\* session it was opened with: c2 and c3 are two connections of U1, c4 was
\* opened without logging in.
Sids == {"c1", "c2", "c3", "c4"}

SidUser == [c1 |-> "T1", c2 |-> "U1", c3 |-> "U1", c4 |-> NoValue]

\* HTTP clients, each with a cookie jar of its own.  The requests of the
\* relay specifications name the user of their cookie session themselves;
\* the jars are followed where logging in and out is checked.
Browsers == {"b1", "b2"}

\* The signaling bodies clients send (from_user_id is supplied by the client).
RelayBodies == { [from_user_id |-> "U1", payload |-> "sdp" ] }

(* ---------------------------------------------------------------------- *)
(* State                                                                   *)
(* ---------------------------------------------------------------------- *)

VARIABLES
    active_sessions,       \* session id -> [lecture_id, teacher_id, status]
    session_participants,  \* session id -> (user id -> membership entry)
    online_users,          \* set of user ids currently logged in
    room_members,          \* Socket.IO room named by a session id -> sids
    conn,                  \* sid -> "fresh" | "open" | "closed"
    timers,                \* session id -> number of pending cleanup timers
    ev,                    \* the inbound event handled last
    emitted,               \* what the last handler emitted, in order
    ended_emits,           \* session id -> session_ended emits since its start
    thr,                   \* handler threads in flight (threaded specification)
    cookies                \* browser -> user id in its Flask cookie session

vars == << active_sessions, session_participants, online_users, room_members,
           conn, timers, ev, emitted, ended_emits, thr, cookies >>

\* f"session_{lecture_id}_{uuid.uuid4().hex[:8]}"
MakeSessionId(lecture_id, uuid) == "session_" \o lecture_id \o "_" \o uuid

\* The session ids a start request of a modelled user can register.
SessionIds ==
    { MakeSessionId(l, u) :
        l \in { x \in Lectures : LectureOwner[x] \in Users }, u \in Uuids }

\* Python truthiness of an optional string field.
Falsy(x) == x = NoValue

\* session['user_id'] of the connection's Flask session, or None.
SessionUser(c) == SidUser[c]

(* ---------------------------------------------------------------------- *)
(* Events and emitted messages                                             *)
(* ---------------------------------------------------------------------- *)

NoEvent ==
    [ kind |-> "none", sid |-> NoValue, session_id |-> NoValue,
      user_id |-> NoValue, target_user_id |-> NoValue,
      from_user_id |-> NoValue, payload |-> NoValue ]

Event(kind, c, session_id) ==
    [ NoEvent EXCEPT !.kind = kind, !.sid = c, !.session_id = session_id ]

BlankMsg ==
    [ event |-> NoValue, room |-> NoValue, recipients |-> {},
      user_id |-> NoValue, participants_count |-> -1, participants |-> {},
      from_user_id |-> NoValue, payload |-> NoValue, message |-> NoValue ]

\* The connections in the Socket.IO room `room`: a room named by a session id
\* holds those who join_room'ed it, a room named by a sid holds that
\* connection while it is open.
RoomSids(rooms, room) ==
    IF room \in DOMAIN rooms THEN rooms[room]
    ELSE IF room \in Sids /\ conn[room] = "open" THEN {room}
    ELSE {}

\* emit(event, ..., room=room [, include_self=False])
EmitRoom(event, rooms, room, skip) ==
    [ BlankMsg EXCEPT !.event = event, !.room = room,
                      !.recipients = RoomSids(rooms, room) \ skip ]

\* emit(event, ...) inside a handler: to the calling connection only.
EmitSelf(event, c) ==
    [ BlankMsg EXCEPT !.event = event, !.room = c, !.recipients = {c} ]

ErrorMsg(c, text) == [ EmitSelf("error", c) EXCEPT !.message = text ]

\* No handler is between its emits and its return: the server takes up the
\* next request, event or timer.
Idle == ev = NoEvent

(* ---------------------------------------------------------------------- *)
(* Pure helpers of the handlers                                            *)
(* ---------------------------------------------------------------------- *)

\* The registry entry start_live_session stores (title, timestamp and the
\* unused participants/recordings lists are left out).
NewSession(lecture_id, teacher_id) ==
    [ lecture_id |-> lecture_id, teacher_id |-> teacher_id,
      status |-> "active" ]

\* The membership entry handle_join_session stores (joined_at is left out).
JoinEntry(u, c) ==
    [ user_type |-> UserType[u], user_name |-> UserName[u], socket_id |-> c ]

\* A join that keeps the entry a user already has (dict.setdefault).
AddParticipant_KeepExisting(sp, s, u, c) ==
    LET members == IF s \in DOMAIN sp THEN sp[s] ELSE << >>
    IN  [ x \in DOMAIN sp \cup {s} |->
            IF x = s
            THEN [ y \in DOMAIN members \cup {u} |->
                     IF y \in DOMAIN members THEN members[y]
                     ELSE JoinEntry(u, c) ]
            ELSE sp[x] ]

\* session_participants after lines 1116-1124: the session's dict is created
\* when missing and the user's entry is assigned (a dict assignment
\* overwrites).
AddParticipant(sp, s, u, c) ==
    LET members == IF s \in DOMAIN sp THEN sp[s] ELSE << >>
        others  == DOMAIN members \ {u}
    IN  [ x \in DOMAIN sp \cup {s} |->
            IF x = s
            THEN [ y \in others \cup {u} |->
                     IF y = u THEN JoinEntry(u, c) ELSE members[y] ]
            ELSE sp[x] ]

\* A membership test that looks at the session only.
IsParticipant_SessionOnly(sp, s, u) == s \in DOMAIN sp

\* `session_id in session_participants and user_id in session_participants[session_id]`
IsParticipant(sp, s, u) == s \in DOMAIN sp /\ u \in DOMAIN sp[s]

\* session_participants after `del session_participants[session_id][user_id]`
RemoveParticipant(sp, s, u) ==
    [ sp EXCEPT ![s] = [ y \in DOMAIN sp[s] \ {u} |-> sp[s][y] ] ]

\* len(session_participants[session_id])
ParticipantsCount(sp, s) == Cardinality(DOMAIN sp[s])

\* list(session_participants[session_id].values())
ParticipantsList(sp, s) == { sp[s][u] : u \in DOMAIN sp[s] }

\* A stale count: the length taken before the entry is deleted.
LeftCount_BeforeDelete(sp, s, u) == ParticipantsCount(sp, s)

\* participants_count of handle_leave_session: the length of the session's
\* dict after `del session_participants[session_id][user_id]`.
LeftCount(sp, s, u) == ParticipantsCount(RemoveParticipant(sp, s, u), s)

\* A session ended while one participant remains.
NoParticipantsLeft_AtMostOne(count) == count <= 1

\* `if participants_count == 0`
NoParticipantsLeft(count) == count = 0

\* A registry test that accepts every session id.
SessionExists_Always(reg, s) == TRUE

\* `if session_id in active_sessions`
SessionExists(reg, s) == s \in DOMAIN reg

\* active_sessions[session_id]['status'] = 'ended'
MarkEnded(reg, s) == [ reg EXCEPT ![s].status = "ended" ]

\* A dict without key k (`del d[k]` guarded by `k in d`).
Without(d, k) == [ x \in DOMAIN d \ {k} |-> d[x] ]

(* ---------------------------------------------------------------------- *)
(* Initial state                                                           *)
(* ---------------------------------------------------------------------- *)

Init ==
    /\ active_sessions = << >>
    /\ session_participants = << >>
    /\ online_users = {}
    /\ room_members = [ s \in SessionIds |-> {} ]
    /\ conn = [ c \in Sids |-> "fresh" ]
    /\ timers = [ s \in SessionIds |-> 0 ]
    /\ ev = NoEvent
    /\ emitted = << >>
    /\ ended_emits = [ s \in SessionIds |-> 0 ]
    /\ thr = << >>
    /\ cookies = [ b \in Browsers |-> NoValue ]

(* ---------------------------------------------------------------------- *)
(* HTTP routes                                                             *)
(* ---------------------------------------------------------------------- *)

\* POST /api/login with credentials the data store accepts for user u.
login(u) ==
    /\ Idle
    /\ online_users' = online_users \cup {u}
    /\ ev' = [ NoEvent EXCEPT !.kind = "login", !.user_id = u ]
    /\ emitted' = << >>
    /\ UNCHANGED << active_sessions, session_participants, room_members,
                    conn, timers, ended_emits, thr >>
    /\ UNCHANGED cookies

\* POST /api/logout with the cookie session of user u.
logout(u) ==
    /\ Idle
    /\ online_users' = online_users \ {u}
    /\ ev' = [ NoEvent EXCEPT !.kind = "logout", !.user_id = u ]
    /\ emitted' = << >>
    /\ UNCHANGED << active_sessions, session_participants, room_members,
                    conn, timers, ended_emits, thr >>
    /\ UNCHANGED cookies

\* The guard of @api_teacher_required for a request whose cookie session
\* holds user u (NoValue: no user_id in the session).
api_teacher_required(u) ==
    /\ ~Falsy(u)
    /\ UserType[u] = "teacher"
    /\ u \in online_users

\* An ownership test that accepts every lecture of the data store.
OwnsLecture_AnyLecture(u, lecture_id) == lecture_id \in Lectures

\* `lecture = db.get_lecture_by_id(lecture_id)` followed by
\* `if not lecture or lecture['teacher_id'] != session['user_id']`, negated.
OwnsLecture(u, lecture_id) ==
    /\ lecture_id \in Lectures
    /\ LectureOwner[lecture_id] = u

\* The connections in the room 'students' (joined in handle_connect).
StudentSids ==
    { c \in Sids : /\ conn[c] = "open"
                   /\ ~Falsy(SessionUser(c))
                   /\ UserType[SessionUser(c)] = "student" }

\* POST /api/teacher/live_session/start by user u for lecture_id, with the
\* uuid drawn for the session id.
start_live_session(u, lecture_id, uuid) ==
    LET s == MakeSessionId(lecture_id, uuid)
        ok == /\ api_teacher_required(u)
              /\ ~Falsy(lecture_id)
              /\ OwnsLecture(u, lecture_id)
    IN  /\ Idle
        /\ ev' = [ NoEvent EXCEPT !.kind = "start", !.user_id = u,
                                  !.session_id =
                                      IF ok THEN s ELSE NoValue,
                                  !.payload = lecture_id ]
        /\ IF ok
           THEN /\ active_sessions' =
                      [ x \in DOMAIN active_sessions \cup {s} |->
                          IF x = s THEN NewSession(lecture_id, u)
                          ELSE active_sessions[x] ]
                /\ ended_emits' = [ ended_emits EXCEPT ![s] = 0 ]
                /\ emitted' =
                      << [ BlankMsg EXCEPT !.event = "live_session_started",
                                           !.room = "students",
                                           !.recipients = StudentSids ] >>
           ELSE /\ emitted' = << >>
                /\ UNCHANGED << active_sessions, ended_emits >>
        /\ UNCHANGED << session_participants, online_users, room_members,
                        conn, timers, thr >>
        /\ UNCHANGED cookies

(* ---------------------------------------------------------------------- *)
(* The cleanup timer                                                       *)
(* ---------------------------------------------------------------------- *)

\* A cleanup that forgets the participant tracker.
cleanup_session_RegistryOnly(s) ==
    /\ active_sessions' =
          IF s \in DOMAIN active_sessions THEN Without(active_sessions, s)
          ELSE active_sessions
    /\ session_participants' = session_participants

\* A cleanup that is called off when somebody has joined again.
cleanup_session_UnlessRejoined(s) ==
    IF s \in DOMAIN session_participants /\ DOMAIN session_participants[s] # {}
    THEN UNCHANGED << active_sessions, session_participants >>
    ELSE /\ active_sessions' =
               IF s \in DOMAIN active_sessions
               THEN Without(active_sessions, s)
               ELSE active_sessions
         /\ session_participants' =
               IF s \in DOMAIN session_participants
               THEN Without(session_participants, s)
               ELSE session_participants

\* cleanup_session(session_id): both maps lose the session id.
cleanup_session(s) ==
    /\ active_sessions' =
          IF s \in DOMAIN active_sessions THEN Without(active_sessions, s)
          ELSE active_sessions
    /\ session_participants' =
          IF s \in DOMAIN session_participants
          THEN Without(session_participants, s)
          ELSE session_participants

\* A pending threading.Timer(5.0, ...) of session s fires.
TimerFires(s) ==
    /\ Idle
    /\ timers[s] > 0
    /\ timers' = [ timers EXCEPT ![s] = @ - 1 ]
    /\ cleanup_session(s)
    /\ ended_emits' = [ ended_emits EXCEPT ![s] = 0 ]
    /\ ev' = [ NoEvent EXCEPT !.kind = "cleanup", !.session_id = s ]
    /\ emitted' = << >>
    /\ UNCHANGED << online_users, room_members, conn, thr >>
    /\ UNCHANGED cookies

(* ---------------------------------------------------------------------- *)
(* Socket.IO event handlers, each run to completion                        *)
(* ---------------------------------------------------------------------- *)

\* @socketio.on('connect')
handle_connect(c) ==
    /\ Idle
    /\ conn[c] = "fresh"
    /\ c = "c3" => conn["c2"] # "fresh"
    /\ conn' = [ conn EXCEPT ![c] = "open" ]
    /\ ev' = Event("connect", c, NoValue)
    /\ emitted' =
          IF Falsy(SessionUser(c)) THEN << >>
          ELSE << [ EmitSelf("connected", c) EXCEPT
                      !.user_id = SessionUser(c) ] >>
    /\ UNCHANGED << active_sessions, session_participants, online_users,
                    room_members, timers, ended_emits, thr >>
    /\ UNCHANGED cookies

\* @socketio.on('disconnect'); the server then drops the connection from
\* every room it is in.  The handler touches neither map.  A sid is never
\* used again, except that the sid of a connection without identity, which
\* no room and no tracker entry ever records, stands for the next such
\* connection too.
handle_disconnect(c) ==
    /\ Idle
    /\ conn[c] = "open"
    /\ conn' = [ conn EXCEPT ![c] = IF Falsy(SessionUser(c)) THEN "fresh"
                                    ELSE "closed" ]
    /\ room_members' = [ s \in DOMAIN room_members |-> room_members[s] \ {c} ]
    /\ ev' = Event("disconnect", c, NoValue)
    /\ emitted' = << >>
    /\ UNCHANGED << active_sessions, session_participants, online_users,
                    timers, ended_emits, thr >>
    /\ UNCHANGED cookies

\* The two emits of a successful join (lines 1126-1137).
JoinEmits(c, rooms, sp, s, u) ==
    << [ EmitRoom("user_joined", rooms, s, {c}) EXCEPT
           !.user_id = u,
           !.participants_count = ParticipantsCount(sp, s) ],
       [ EmitSelf("session_info", c) EXCEPT
           !.participants = ParticipantsList(sp, s),
           !.participants_count = ParticipantsCount(sp, s) ] >>

\* @socketio.on('join_session') on connection c with data {session_id}.
handle_join_session(c, session_id) ==
    LET u == SessionUser(c) IN
    /\ Idle
    /\ conn[c] = "open"
    /\ ev' = Event("join_session", c, session_id)
    /\ IF Falsy(u)
       THEN /\ emitted' = << ErrorMsg(c, "Authentication required") >>
            /\ UNCHANGED << session_participants, room_members >>
       ELSE IF ~SessionExists(active_sessions, session_id)
       THEN /\ emitted' = << ErrorMsg(c, "Session not found") >>
            /\ UNCHANGED << session_participants, room_members >>
       ELSE /\ room_members' =
                  [ room_members EXCEPT ![session_id] = @ \cup {c} ]
            /\ session_participants' =
                  AddParticipant(session_participants, session_id, u, c)
            /\ emitted' = JoinEmits(c, room_members', session_participants',
                                    session_id, u)
    /\ UNCHANGED << active_sessions, online_users, conn, timers,
                    ended_emits, thr >>
    /\ UNCHANGED cookies

\* `data.get('user_id') or (session.get('user_id') if 'user_id' in session else None)`
LeaveUser(c, user_id) == IF ~Falsy(user_id) THEN user_id ELSE SessionUser(c)

\* leave_room(session_id)
LeaveRoom(rooms, room, c) ==
    IF room \in DOMAIN rooms THEN [ rooms EXCEPT ![room] = @ \ {c} ]
    ELSE rooms

\* @socketio.on('leave_session') on connection c with data
\* {session_id, user_id}.
handle_leave_session(c, session_id, user_id) ==
    LET u     == LeaveUser(c, user_id)
        rooms == LeaveRoom(room_members, session_id, c)
        sp    == RemoveParticipant(session_participants, session_id, u)
        count == LeftCount(session_participants, session_id, u)
        left  == [ EmitRoom("user_left", rooms, session_id, {}) EXCEPT
                     !.user_id = u, !.participants_count = count ]
        ends  == /\ NoParticipantsLeft(count)
                 /\ SessionExists(active_sessions, session_id)
    IN
    /\ Idle
    /\ conn[c] = "open"
    /\ ev' = [ Event("leave_session", c, session_id) EXCEPT
                 !.user_id = user_id ]
    /\ IF Falsy(session_id) \/ Falsy(u)
       THEN /\ emitted' = << >>
            /\ UNCHANGED << active_sessions, session_participants,
                            room_members, timers, ended_emits >>
       ELSE /\ room_members' = rooms
            /\ IF ~IsParticipant(session_participants, session_id, u)
               THEN /\ emitted' = << >>
                    /\ UNCHANGED << active_sessions, session_participants,
                                    timers, ended_emits >>
               ELSE /\ session_participants' = sp
                    /\ IF ends
                       THEN /\ timers[session_id] < MaxTimers
                            /\ active_sessions' =
                                  MarkEnded(active_sessions, session_id)
                            /\ emitted' =
                                  << left, EmitRoom("session_ended", rooms,
                                                    session_id, {}) >>
                            /\ timers' =
                                  [ timers EXCEPT ![session_id] = @ + 1 ]
                            /\ ended_emits' =
                                  [ ended_emits EXCEPT ![session_id] = @ + 1 ]
                       ELSE /\ emitted' = << left >>
                            /\ UNCHANGED << active_sessions, timers,
                                            ended_emits >>
    /\ UNCHANGED << online_users, conn, thr >>
    /\ UNCHANGED cookies

\* `not session_id or not target_user_id or session_id not in session_participants`
InvalidSignaling(sp, session_id, target_user_id) ==
    \/ Falsy(session_id)
    \/ Falsy(target_user_id)
    \/ session_id \notin DOMAIN sp

\* `target = session_participants[session_id].get(target_user_id)` followed
\* by `if not target`: an entry is a non-empty dict, so the target is falsy
\* exactly when the user has no entry.
TargetMissing(sp, session_id, target_user_id) ==
    target_user_id \notin DOMAIN sp[session_id]

\* A lookup that takes the entry of some participant of the session.
TargetEntry_AnyMember(sp, session_id, target_user_id) ==
    sp[session_id][CHOOSE x \in DOMAIN sp[session_id] : TRUE]

\* session_participants[session_id].get(target_user_id), when present.
TargetEntry(sp, session_id, target_user_id) ==
    sp[session_id][target_user_id]

\* emit(kind, {'from_user_id': ..., <payload>}, room=target['socket_id'])
RelayMsg(kind, target, from_user_id, payload) ==
    [ EmitRoom(kind, room_members, target.socket_id, {}) EXCEPT
        !.from_user_id = from_user_id, !.payload = payload ]

\* What a signaling handler emits for data
\* {session_id, target_user_id, from_user_id, <payload>} on connection c.
RelayEmits(kind, c, session_id, target_user_id, from_user_id, payload) ==
    IF InvalidSignaling(session_participants, session_id, target_user_id)
    THEN << ErrorMsg(c, "Invalid signaling data") >>
    ELSE IF TargetMissing(session_participants, session_id, target_user_id)
    THEN << ErrorMsg(c, "Target not found") >>
    ELSE << RelayMsg(kind,
                     TargetEntry(session_participants, session_id,
                                 target_user_id),
                     from_user_id, payload) >>

Relay(kind, c, session_id, target_user_id, body) ==
    /\ Idle
    /\ conn[c] = "open"
    /\ ev' = [ Event(kind, c, session_id) EXCEPT
                 !.target_user_id = target_user_id,
                 !.from_user_id = body.from_user_id,
                 !.payload = body.payload ]
    /\ emitted' = RelayEmits(kind, c, session_id, target_user_id,
                             body.from_user_id, body.payload)
    /\ UNCHANGED << active_sessions, session_participants, online_users,
                    room_members, conn, timers, ended_emits, thr >>
    /\ UNCHANGED cookies

\* @socketio.on('webrtc_offer')
handle_webrtc_offer(c, session_id, target_user_id, body) ==
    Relay("webrtc_offer", c, session_id, target_user_id, body)

\* @socketio.on('webrtc_answer')
handle_webrtc_answer(c, session_id, target_user_id, body) ==
    Relay("webrtc_answer", c, session_id, target_user_id, body)

\* @socketio.on('ice_candidate')
handle_ice_candidate(c, session_id, target_user_id, body) ==
    Relay("ice_candidate", c, session_id, target_user_id, body)

\* @socketio.on('chat_message') on connection c with data {session_id, ...}.
handle_chat_message(c, session_id) ==
    /\ Idle
    /\ conn[c] = "open"
    /\ ev' = Event("chat_message", c, session_id)
    /\ emitted' =
          IF Falsy(session_id) THEN << >>
          ELSE << [ EmitRoom("chat_message", room_members, session_id, {})
                      EXCEPT !.payload = "chat" ] >>
    /\ UNCHANGED << active_sessions, session_participants, online_users,
                    room_members, conn, timers, ended_emits, thr >>
    /\ UNCHANGED cookies

(* ---------------------------------------------------------------------- *)
(* Specification: every handler runs to completion                         *)
(* ---------------------------------------------------------------------- *)

\* The handler returns: its emits are handed to the transport.
HandlerReturns ==
    /\ ~Idle
    /\ ev' = NoEvent
    /\ emitted' = << >>
    /\ UNCHANGED << active_sessions, session_participants, online_users,
                    room_members, conn, timers, ended_emits, thr >>
    /\ UNCHANGED cookies

\* The session ids and user ids an event may name.
EventSessionIds == SessionIds \cup {NoValue}

EventUserIds == Users \cup {NoValue}

\* The uuid values drawn by the start requests of this specification: one
\* session id is registered, the other is named by events and never exists.
StartUuids == {"a"}

\* The accounts whose login state a request of this specification reads.
Teachers == { u \in Users : UserType[u] = "teacher" }

Next ==
    \/ HandlerReturns
    \/ \E u \in Teachers : login(u)
    \/ \E u \in Teachers : logout(u)
    \/ \E u \in Users, l \in Lectures \cup {NoValue, "L9"}, x \in StartUuids :
          start_live_session(u, l, x)
    \/ \E s \in SessionIds : TimerFires(s)
    \/ \E c \in Sids : handle_connect(c)
    \/ \E c \in Sids : handle_disconnect(c)
    \/ \E c \in Sids, s \in EventSessionIds : handle_join_session(c, s)
    \/ \E c \in Sids, s \in EventSessionIds, u \in EventUserIds :
          handle_leave_session(c, s, u)
    \/ \E c \in Sids, s \in EventSessionIds, t \in EventUserIds,
          b \in RelayBodies : handle_webrtc_offer(c, s, t, b)
    \/ \E c \in Sids, s \in EventSessionIds, t \in EventUserIds,
          b \in RelayBodies : handle_webrtc_answer(c, s, t, b)
    \/ \E c \in Sids, s \in EventSessionIds, t \in EventUserIds,
          b \in RelayBodies : handle_ice_candidate(c, s, t, b)
    \/ \E c \in Sids, s \in EventSessionIds : handle_chat_message(c, s)

Spec == Init /\ [][Next]_vars

(* ---------------------------------------------------------------------- *)
(* Threaded specification: SocketIO(async_mode='threading') runs every     *)
(* handler in a thread of its own and threading.Timer runs cleanup_session *)
(* in another; nothing locks the two maps.  handle_join_session and        *)
(* cleanup_session are split at the statements that read or write them.    *)
(* ---------------------------------------------------------------------- *)

\* thr maps a running thread (named by the sid of its event, or by the
\* session id of its timer) to its position.
Running(x) == x \in DOMAIN thr

Spawn(x, frame) ==
    [ y \in DOMAIN thr \cup {x} |-> IF y = x THEN frame ELSE thr[y] ]

\* Lines 1100-1112: the identity and registry checks of handle_join_session.
JoinChecks(c, session_id) ==
    LET u == SessionUser(c) IN
    /\ Idle
    /\ conn[c] = "open"
    /\ ~Running(c)
    /\ IF Falsy(u)
       THEN /\ ev' = Event("join_session", c, session_id)
            /\ emitted' = << ErrorMsg(c, "Authentication required") >>
            /\ UNCHANGED thr
       ELSE IF ~SessionExists(active_sessions, session_id)
       THEN /\ ev' = Event("join_session", c, session_id)
            /\ emitted' = << ErrorMsg(c, "Session not found") >>
            /\ UNCHANGED thr
       ELSE /\ thr' = Spawn(c, [ pc |-> "join_room",
                                 session_id |-> session_id ])
            /\ UNCHANGED << ev, emitted >>
    /\ UNCHANGED << active_sessions, session_participants, online_users,
                    room_members, conn, timers, ended_emits >>
    /\ UNCHANGED cookies

\* Line 1114: join_room(session_id).
JoinRoom(c) ==
    /\ Idle
    /\ Running(c)
    /\ thr[c].pc = "join_room"
    /\ room_members' =
          [ room_members EXCEPT ![thr[c].session_id] = @ \cup {c} ]
    /\ thr' = [ thr EXCEPT ![c].pc = "ensure" ]
    /\ UNCHANGED << active_sessions, session_participants, online_users,
                    conn, timers, ev, emitted, ended_emits >>
    /\ UNCHANGED cookies

\* Lines 1116-1117: the session's dict is created when missing.
JoinEnsure(c) ==
    LET s == thr[c].session_id IN
    /\ Idle
    /\ Running(c)
    /\ thr[c].pc = "ensure"
    /\ session_participants' =
          IF s \in DOMAIN session_participants THEN session_participants
          ELSE [ x \in DOMAIN session_participants \cup {s} |->
                   IF x = s THEN << >> ELSE session_participants[x] ]
    /\ thr' = [ thr EXCEPT ![c].pc = "write" ]
    /\ UNCHANGED << active_sessions, online_users, room_members, conn,
                    timers, ev, emitted, ended_emits >>
    /\ UNCHANGED cookies

\* Lines 1119-1124: the entry is assigned; a session dict deleted meanwhile
\* raises KeyError, which ends the handler.
JoinWrite(c) ==
    LET s == thr[c].session_id IN
    /\ Idle
    /\ Running(c)
    /\ thr[c].pc = "write"
    /\ IF s \in DOMAIN session_participants
       THEN /\ session_participants' =
                  AddParticipant(session_participants, s, SessionUser(c), c)
            /\ thr' = [ thr EXCEPT ![c].pc = "emit" ]
            /\ UNCHANGED << ev, emitted >>
       ELSE /\ thr' = Without(thr, c)
            /\ ev' = Event("join_session", c, s)
            /\ emitted' = << >>
            /\ UNCHANGED session_participants
    /\ UNCHANGED << active_sessions, online_users, room_members, conn,
                    timers, ended_emits >>
    /\ UNCHANGED cookies

\* Lines 1126-1137: the two emits; a session dict deleted meanwhile raises
\* KeyError before anything is emitted.
JoinEmit(c) ==
    LET s == thr[c].session_id IN
    /\ Idle
    /\ Running(c)
    /\ thr[c].pc = "emit"
    /\ thr' = Without(thr, c)
    /\ ev' = Event("join_session", c, s)
    /\ emitted' =
          IF s \in DOMAIN session_participants
          THEN JoinEmits(c, room_members, session_participants, s,
                         SessionUser(c))
          ELSE << >>
    /\ UNCHANGED << active_sessions, session_participants, online_users,
                    room_members, conn, timers, ended_emits >>
    /\ UNCHANGED cookies

\* A cleanup whose first half leaves the registry entry where it is.
CleanupRegistry_KeepsEntry(s) ==
    /\ Idle
    /\ timers[s] > 0
    /\ ~Running(s)
    /\ timers' = [ timers EXCEPT ![s] = @ - 1 ]
    /\ ended_emits' = [ ended_emits EXCEPT ![s] = 0 ]
    /\ thr' = Spawn(s, [ pc |-> "participants", session_id |-> s ])
    /\ UNCHANGED << active_sessions, session_participants, online_users,
                    room_members, conn, ev, emitted >>
    /\ UNCHANGED cookies

\* A pending timer fires; lines 101-102 of cleanup_session.
CleanupRegistry(s) ==
    /\ Idle
    /\ timers[s] > 0
    /\ ~Running(s)
    /\ timers' = [ timers EXCEPT ![s] = @ - 1 ]
    /\ active_sessions' =
          IF s \in DOMAIN active_sessions THEN Without(active_sessions, s)
          ELSE active_sessions
    /\ ended_emits' = [ ended_emits EXCEPT ![s] = 0 ]
    /\ thr' = Spawn(s, [ pc |-> "participants", session_id |-> s ])
    /\ UNCHANGED << session_participants, online_users, room_members, conn,
                    ev, emitted >>
    /\ UNCHANGED cookies

\* Lines 103-104 of cleanup_session.
CleanupParticipants(s) ==
    /\ Idle
    /\ Running(s)
    /\ thr[s].pc = "participants"
    /\ session_participants' =
          IF s \in DOMAIN session_participants
          THEN Without(session_participants, s)
          ELSE session_participants
    /\ thr' = Without(thr, s)
    /\ UNCHANGED << active_sessions, online_users, room_members, conn,
                    timers, ev, emitted, ended_emits >>
    /\ UNCHANGED cookies

\* No handler or timer thread is between two of its statements.
Quiescent == DOMAIN thr = {}

\* The connections and the session id the threaded specification follows;
\* a connection has one handler running at a time.
ThreadedSids == {"c1", "c2"}

ThreadedSessionIds == { MakeSessionId("L1", x) : x \in StartUuids }

LeaveWhenNotRunning(c, s) ==
    /\ ~Running(c)
    /\ handle_leave_session(c, s, NoValue)

ThreadedNext ==
    \/ HandlerReturns
    \/ \E u \in Teachers : login(u)
    \/ \E x \in StartUuids : start_live_session("T1", "L1", x)
    \/ \E c \in ThreadedSids : handle_connect(c)
    \/ \E c \in ThreadedSids, s \in ThreadedSessionIds : JoinChecks(c, s)
    \/ \E c \in ThreadedSids : JoinRoom(c)
    \/ \E c \in ThreadedSids : JoinEnsure(c)
    \/ \E c \in ThreadedSids : JoinWrite(c)
    \/ \E c \in ThreadedSids : JoinEmit(c)
    \/ \E c \in ThreadedSids, s \in ThreadedSessionIds :
          LeaveWhenNotRunning(c, s)
    \/ \E s \in ThreadedSessionIds : CleanupRegistry(s)
    \/ \E s \in ThreadedSessionIds : CleanupParticipants(s)

ThreadedSpec == Init /\ [][ThreadedNext]_vars

(* ---------------------------------------------------------------------- *)
(* Vocabulary of the properties                                            *)
(* ---------------------------------------------------------------------- *)

RelayKinds == {"webrtc_offer", "webrtc_answer", "ice_candidate"}

\* The positions of `emitted` holding an emit of the given event.
EmitsOf(out, event) == { i \in 1..Len(out) : out[i].event = event }

\* The step in which a handler takes up an event of the given kind.
Handles(kind) == Idle /\ ev'.kind = kind

\* The user a leave_session event removes.
LeavingUser(e) == LeaveUser(e.sid, e.user_id)

Members(sp, s) == IF s \in DOMAIN sp THEN DOMAIN sp[s] ELSE {}

Status(reg, s) == IF s \in DOMAIN reg THEN reg[s].status ELSE "absent"

(* ---------------------------------------------------------------------- *)
(* C1                                                                      *)
(* ---------------------------------------------------------------------- *)

\* C1: every participants_count the program reports (in user_joined,
\* session_info and user_left) equals the number of membership entries the
\* participant tracker holds for that session when the event is emitted.
C1_ReportedCountIsTrackerCount ==
    \A i \in 1..Len(emitted) :
        emitted[i].event \in {"user_joined", "session_info", "user_left"}
        => /\ ev.session_id \in DOMAIN session_participants
           /\ emitted[i].participants_count
                 = Cardinality(DOMAIN session_participants[ev.session_id])

\* A leave has reported one remaining participant.
C1_Witness ==
    /\ ev.kind = "leave_session"
    /\ \E i \in EmitsOf(emitted, "user_left") :
          emitted[i].participants_count = 1

(* ---------------------------------------------------------------------- *)
(* C2                                                                      *)
(* ---------------------------------------------------------------------- *)

\* C2: with join_session, leave_session and the cleanup timer interleaved in
\* any way, no session id has an entry in the participant tracker without
\* an entry in the room registry.  Stated for the states in which no thread
\* is between two of its statements, which the claim includes.
C2_NoTrackerEntryWithoutRegistryEntry ==
    Quiescent => DOMAIN session_participants \subseteq DOMAIN active_sessions

(* ---------------------------------------------------------------------- *)
(* C3                                                                      *)
(* ---------------------------------------------------------------------- *)

\* C3: a leave_session that removes the last member of S turns S to 'ended',
\* schedules a deferred removal and emits session_ended; between the start
\* of S and its removal session_ended is emitted exactly once.
C3_EndedExactlyOnce ==
    /\ ( /\ ev.kind = "leave_session"
         /\ \E i \in EmitsOf(emitted, "user_left") :
               emitted[i].participants_count = 0 )
       => /\ Status(active_sessions, ev.session_id) = "ended"
          /\ timers[ev.session_id] >= 1
          /\ Cardinality(EmitsOf(emitted, "session_ended")) = 1
    /\ \A s \in SessionIds : ended_emits[s] <= 1

(* ---------------------------------------------------------------------- *)
(* C4                                                                      *)
(* ---------------------------------------------------------------------- *)

\* C4: a leave_session after which S still has a member leaves the registry
\* and the timers as they were and emits no session_ended; S turns to
\* 'ended' only in a leave_session on S after which S has no member.
C4_EndsOnlyWhenEmpty ==
    [][ /\ \A s \in SessionIds :
              ( /\ Handles("leave_session")
                /\ ev'.session_id = s
                /\ Members(session_participants', s) # {} )
              => /\ active_sessions' = active_sessions
                 /\ timers' = timers
                 /\ EmitsOf(emitted', "session_ended") = {}
        /\ \A s \in SessionIds :
              ( /\ Status(active_sessions', s) = "ended"
                /\ Status(active_sessions, s) # "ended" )
              => /\ Handles("leave_session")
                 /\ ev'.session_id = s
                 /\ s \in DOMAIN session_participants'
                 /\ Members(session_participants', s) = {}
      ]_vars

\* A leave has left one participant behind in a session that is active.
C4_Witness ==
    /\ ev.kind = "leave_session"
    /\ Len(emitted) = 1
    /\ emitted[1].event = "user_left"
    /\ emitted[1].participants_count = 1
    /\ Status(active_sessions, ev.session_id) = "active"

(* ---------------------------------------------------------------------- *)
(* C5                                                                      *)
(* ---------------------------------------------------------------------- *)

\* C5: a join_session by a user who already has a membership in S replaces
\* that membership, transport handle included, leaves every other membership
\* and the count of S as they were, and the session_info lists one entry
\* for the user.
C5_RejoinOverwrites ==
    [][ \A c \in Sids, s \in SessionIds :
          ( /\ Handles("join_session")
            /\ ev'.sid = c
            /\ ev'.session_id = s
            /\ s \in DOMAIN active_sessions
            /\ SessionUser(c) \in Members(session_participants, s) )
          => LET u == SessionUser(c) IN
             /\ Members(session_participants', s)
                   = Members(session_participants, s)
             /\ session_participants'[s][u] = JoinEntry(u, c)
             /\ \A o \in Members(session_participants, s) \ {u} :
                   session_participants'[s][o] = session_participants[s][o]
             /\ \E i \in EmitsOf(emitted', "session_info") :
                   /\ emitted'[i].participants_count
                         = Cardinality(Members(session_participants, s))
                   /\ Cardinality({ e \in emitted'[i].participants :
                                      e.user_name = UserName[u] }) = 1
      ]_vars

\* U1, who joined from c2 and is still in the room with it, has joined again
\* from c3 and is recorded with c3.
C5_Witness ==
    /\ ev.kind = "join_session"
    /\ ev.sid = "c3"
    /\ ev.session_id \in DOMAIN session_participants
    /\ "c2" \in room_members[ev.session_id]
    /\ "U1" \in DOMAIN session_participants[ev.session_id]
    /\ session_participants[ev.session_id]["U1"].socket_id = "c3"
    /\ EmitsOf(emitted, "session_info") # {}

(* ---------------------------------------------------------------------- *)
(* C6                                                                      *)
(* ---------------------------------------------------------------------- *)

\* C6: a leave_session for a (session, user) pair without a membership
\* changes neither the tracker nor the registry nor the timers and emits
\* nothing.
C6_LeaveOfNonMemberIsNoOp ==
    [][ ( /\ Handles("leave_session")
          /\ LeavingUser(ev') \notin Members(session_participants,
                                             ev'.session_id) )
        => /\ session_participants' = session_participants
           /\ active_sessions' = active_sessions
           /\ timers' = timers
           /\ emitted' = << >>
      ]_vars

\* A leave named a user without a membership in a session that has members.
C6_Witness ==
    /\ ev.kind = "leave_session"
    /\ ~Falsy(LeavingUser(ev))
    /\ Members(session_participants, ev.session_id) # {}
    /\ LeavingUser(ev) \notin Members(session_participants, ev.session_id)
    /\ emitted = << >>

(* ---------------------------------------------------------------------- *)
(* C7                                                                      *)
(* ---------------------------------------------------------------------- *)

\* C7 as stated: whenever a join_session names a session id that is not in
\* the registry, the caller (and nobody else) is sent the error
\* 'Session not found'.
C7_UnknownSessionAlwaysNotFound ==
    ( /\ ev.kind = "join_session"
      /\ ev.session_id \notin DOMAIN active_sessions )
    => emitted = << ErrorMsg(ev.sid, "Session not found") >>

\* C7: a join_session from a connection with an established identity that
\* names a session id not in the registry is answered with the error
\* 'Session not found', sent to the caller only, and changes neither the
\* tracker nor the rooms; from a connection without identity the answer is
\* 'Authentication required', and nothing changes either.
C7_UnknownSessionRejected ==
    [][ \A c \in Sids :
          ( /\ Handles("join_session")
            /\ ev'.sid = c
            /\ ev'.session_id \notin DOMAIN active_sessions )
          => /\ emitted' =
                   << ErrorMsg(c, IF Falsy(SessionUser(c))
                                  THEN "Authentication required"
                                  ELSE "Session not found") >>
             /\ session_participants' = session_participants
             /\ room_members' = room_members
             /\ active_sessions' = active_sessions
      ]_vars

\* A logged-in user's join of an unregistered session id has been rejected.
C7_Witness ==
    /\ ev.kind = "join_session"
    /\ ~Falsy(ev.session_id)
    /\ ~Falsy(SessionUser(ev.sid))
    /\ ev.session_id \notin DOMAIN active_sessions
    /\ ev.session_id \notin DOMAIN session_participants
    /\ emitted = << ErrorMsg(ev.sid, "Session not found") >>

(* ---------------------------------------------------------------------- *)
(* C8                                                                      *)
(* ---------------------------------------------------------------------- *)

\* C8: an offer, answer or ICE candidate for a registered session whose
\* target_user_id names a user without a membership in it delivers nothing
\* and sends the sender, and nobody else, the error 'Target not found'.
C8_MissingTargetReported ==
    ( /\ ev.kind \in RelayKinds
      /\ ev.session_id \in DOMAIN active_sessions
      /\ ~Falsy(ev.target_user_id)
      /\ ev.target_user_id \notin Members(session_participants,
                                          ev.session_id) )
    => emitted = << ErrorMsg(ev.sid, "Target not found") >>

(* ---------------------------------------------------------------------- *)
(* C9                                                                      *)
(* ---------------------------------------------------------------------- *)

\* C9: an offer, answer or ICE candidate with all its fields that names a
\* session id not in the registry is answered with one error, sent to the
\* sender, that is neither the invalid-data error nor the target-not-found
\* error, and delivers nothing.
C9_UnknownSessionDistinguished ==
    ( /\ ev.kind \in RelayKinds
      /\ ~Falsy(ev.session_id)
      /\ ~Falsy(ev.target_user_id)
      /\ ev.session_id \notin DOMAIN active_sessions )
    => /\ Len(emitted) = 1
       /\ emitted[1].event = "error"
       /\ emitted[1].recipients = {ev.sid}
       /\ emitted[1].message
             \notin {"Invalid signaling data", "Target not found"}

(* ---------------------------------------------------------------------- *)
(* C10                                                                     *)
(* ---------------------------------------------------------------------- *)

\* C10: a relay to a target T with a membership in S emits one message of
\* the relayed kind, carrying the from_user_id and payload of the event,
\* addressed to the handle in T's entry and delivered to no other
\* connection; and the handle in T's entry is the connection of T's most
\* recent join: every join records the joining connection, and nothing but
\* a join by T puts or changes T's handle.
C10_RelayReachesCurrentHandle ==
    [][ /\ \A s \in SessionIds, t \in Users :
              ( /\ ev'.kind \in RelayKinds
                /\ Idle
                /\ ev'.session_id = s
                /\ ev'.target_user_id = t
                /\ t \in Members(session_participants, s) )
              => LET h == session_participants[s][t].socket_id IN
                 /\ Len(emitted') = 1
                 /\ emitted'[1].event = ev'.kind
                 /\ emitted'[1].from_user_id = ev'.from_user_id
                 /\ emitted'[1].payload = ev'.payload
                 /\ emitted'[1].room = h
                 /\ emitted'[1].recipients \subseteq {h}
        /\ \A s \in SessionIds, t \in Users :
              ( /\ t \in Members(session_participants', s)
                /\ \/ t \notin Members(session_participants, s)
                   \/ session_participants'[s][t].socket_id
                         # session_participants[s][t].socket_id )
              => /\ Handles("join_session")
                 /\ ev'.session_id = s
                 /\ SessionUser(ev'.sid) = t
        /\ \A s \in SessionIds :
              ( /\ Handles("join_session")
                /\ ev'.session_id = s
                /\ EmitsOf(emitted', "session_info") # {} )
              => /\ SessionUser(ev'.sid) \in Members(session_participants', s)
                 /\ session_participants'[s][SessionUser(ev'.sid)].socket_id
                       = ev'.sid
      ]_vars

\* An offer for U1, who joined from c2 and then from c3 while c2 stayed
\* connected and in the room, has been addressed to c3 and reached c3 only.
C10_Witness ==
    /\ ev.kind = "webrtc_offer"
    /\ ev.target_user_id = "U1"
    /\ ev.session_id \in SessionIds
    /\ "c2" \in room_members[ev.session_id]
    /\ Len(emitted) = 1
    /\ emitted[1].event = "webrtc_offer"
    /\ emitted[1].room = "c3"
    /\ emitted[1].recipients = {"c3"}
    /\ emitted[1].from_user_id = ev.from_user_id
    /\ emitted[1].payload = "sdp"

(* ---------------------------------------------------------------------- *)
(* C11                                                                     *)
(* ---------------------------------------------------------------------- *)

\* The transport handles recorded in the memberships of session s.
MemberHandles(sp, s) == { sp[s][u].socket_id : u \in Members(sp, s) }

\* C11: a successful join_session into S sends the joiner one session_info
\* listing every membership of S, the joiner's included, with
\* participants_count the length of that list, and sends one user_joined
\* that reaches the connection of every other member of S (as far as that
\* connection is still open) and does not reach the joining connection.
C11_JoinNotifiesEveryMember ==
    ( /\ ev.kind = "join_session"
      /\ EmitsOf(emitted, "session_info") # {} )
    => LET s == ev.session_id
           u == SessionUser(ev.sid)
       IN  /\ Cardinality(EmitsOf(emitted, "session_info")) = 1
           /\ Cardinality(EmitsOf(emitted, "user_joined")) = 1
           /\ \A i \in EmitsOf(emitted, "session_info") :
                 /\ emitted[i].recipients = {ev.sid}
                 /\ emitted[i].participants
                       = ParticipantsList(session_participants, s)
                 /\ JoinEntry(u, ev.sid) \in emitted[i].participants
                 /\ emitted[i].participants_count
                       = Cardinality(emitted[i].participants)
           /\ \A i \in EmitsOf(emitted, "user_joined") :
                 /\ ev.sid \notin emitted[i].recipients
                 /\ \A o \in Members(session_participants, s) \ {u} :
                       conn[session_participants[s][o].socket_id] = "open"
                       => session_participants[s][o].socket_id
                             \in emitted[i].recipients

(* ---------------------------------------------------------------------- *)
(* C12                                                                     *)
(* ---------------------------------------------------------------------- *)

\* C12: when a connection has closed, the leave performed for it has removed
\* every membership it held: no membership of any session refers to the
\* closed connection's handle.
C12_DisconnectLeavesEverySession ==
    ev.kind = "disconnect"
    => \A s \in SessionIds :
          ev.sid \notin MemberHandles(session_participants, s)

(* ---------------------------------------------------------------------- *)
(* C13: handle_leave_session split at the statements that read or write    *)
(* the two maps, running in threads beside the split handle_join_session.  *)
(* ---------------------------------------------------------------------- *)

\* The frame of a thread in handle_leave_session: its position, its
\* session_id and user_id, and its local participants_count once taken.
LeaveFrame(pc, session_id, user_id, count) ==
    [ pc |-> pc, session_id |-> session_id, user_id |-> user_id,
      count |-> count ]

\* Lines 1141-1146: the field checks, leave_room and the membership test.
LeaveChecks(c, session_id, user_id) ==
    LET u == LeaveUser(c, user_id) IN
    /\ Idle
    /\ conn[c] = "open"
    /\ ~Running(c)
    /\ IF Falsy(session_id) \/ Falsy(u)
       THEN /\ ev' = [ Event("leave_session", c, session_id) EXCEPT
                         !.user_id = user_id ]
            /\ emitted' = << >>
            /\ UNCHANGED << room_members, thr >>
       ELSE /\ room_members' = LeaveRoom(room_members, session_id, c)
            /\ IF ~IsParticipant(session_participants, session_id, u)
               THEN /\ ev' = [ Event("leave_session", c, session_id) EXCEPT
                                 !.user_id = user_id ]
                    /\ emitted' = << >>
                    /\ UNCHANGED thr
               ELSE /\ thr' = Spawn(c, LeaveFrame("delete", session_id, u, -1))
                    /\ UNCHANGED << ev, emitted >>
    /\ UNCHANGED << active_sessions, session_participants, online_users,
                    conn, timers, ended_emits >>
    /\ UNCHANGED cookies

\* Line 1147: `del session_participants[session_id][user_id]`; an entry
\* deleted meanwhile raises KeyError, which ends the handler.
LeaveDelete(c) ==
    LET s == thr[c].session_id
        u == thr[c].user_id
    IN
    /\ Idle
    /\ Running(c)
    /\ thr[c].pc = "delete"
    /\ IF IsParticipant(session_participants, s, u)
       THEN /\ session_participants' =
                  RemoveParticipant(session_participants, s, u)
            /\ thr' = [ thr EXCEPT ![c].pc = "count" ]
            /\ UNCHANGED << ev, emitted >>
       ELSE /\ thr' = Without(thr, c)
            /\ ev' = Event("leave_session", c, s)
            /\ emitted' = << >>
            /\ UNCHANGED session_participants
    /\ UNCHANGED << active_sessions, online_users, room_members, conn,
                    timers, ended_emits >>
    /\ UNCHANGED cookies

\* Line 1148: `participants_count = len(session_participants[session_id])`;
\* a session dict deleted meanwhile raises KeyError.
LeaveCount(c) ==
    LET s == thr[c].session_id IN
    /\ Idle
    /\ Running(c)
    /\ thr[c].pc = "count"
    /\ IF s \in DOMAIN session_participants
       THEN /\ thr' = [ thr EXCEPT
                          ![c].pc = "notify",
                          ![c].count =
                              ParticipantsCount(session_participants, s) ]
            /\ UNCHANGED << ev, emitted >>
       ELSE /\ thr' = Without(thr, c)
            /\ ev' = Event("leave_session", c, s)
            /\ emitted' = << >>
    /\ UNCHANGED << active_sessions, session_participants, online_users,
                    room_members, conn, timers, ended_emits >>
    /\ UNCHANGED cookies

\* Lines 1149-1160: user_left is emitted with the count taken at line 1148
\* and, when that count is 0 and the session is registered, the session is
\* marked 'ended', session_ended is emitted and a Timer is started.
LeaveNotify(c) ==
    LET s     == thr[c].session_id
        count == thr[c].count
        left  == [ EmitRoom("user_left", room_members, s, {}) EXCEPT
                     !.user_id = thr[c].user_id,
                     !.participants_count = count ]
        ends  == /\ NoParticipantsLeft(count)
                 /\ SessionExists(active_sessions, s)
    IN
    /\ Idle
    /\ Running(c)
    /\ thr[c].pc = "notify"
    /\ thr' = Without(thr, c)
    /\ ev' = Event("leave_session", c, s)
    /\ IF ends
       THEN /\ timers[s] < MaxTimers
            /\ active_sessions' = MarkEnded(active_sessions, s)
            /\ emitted' = << left, EmitRoom("session_ended", room_members,
                                            s, {}) >>
            /\ timers' = [ timers EXCEPT ![s] = @ + 1 ]
            /\ ended_emits' = [ ended_emits EXCEPT ![s] = @ + 1 ]
       ELSE /\ emitted' = << left >>
            /\ UNCHANGED << active_sessions, timers, ended_emits >>
    /\ UNCHANGED << session_participants, online_users, room_members, conn >>
    /\ UNCHANGED cookies

ConcurrentNext ==
    \/ HandlerReturns
    \/ \E u \in Teachers : login(u)
    \/ \E x \in StartUuids : start_live_session("T1", "L1", x)
    \/ \E c \in ThreadedSids : handle_connect(c)
    \/ \E c \in ThreadedSids, s \in ThreadedSessionIds : JoinChecks(c, s)
    \/ \E c \in ThreadedSids : JoinRoom(c)
    \/ \E c \in ThreadedSids : JoinEnsure(c)
    \/ \E c \in ThreadedSids : JoinWrite(c)
    \/ \E c \in ThreadedSids : JoinEmit(c)
    \/ \E c \in ThreadedSids, s \in ThreadedSessionIds :
          LeaveChecks(c, s, NoValue)
    \/ \E c \in ThreadedSids : LeaveDelete(c)
    \/ \E c \in ThreadedSids : LeaveCount(c)
    \/ \E c \in ThreadedSids : LeaveNotify(c)
    \/ \E s \in ThreadedSessionIds : TimerFires(s)

ConcurrentSpec == Init /\ [][ConcurrentNext]_vars

\* The leave_session threads that took a participants_count of 0 for
\* session s at line 1148 and have not yet acted on it.
ObservedZero(s) ==
    { c \in DOMAIN thr : /\ thr[c].pc = "notify"
                         /\ thr[c].session_id = s
                         /\ thr[c].count = 0 }

\* C13: handlers of one session do not interleave, so when the last members
\* leave concurrently one handler, and only one, has taken the count 0 and
\* is about to end the session.
C13_OneHandlerObservesZero ==
    \A s \in SessionIds : Cardinality(ObservedZero(s)) <= 1

(* ---------------------------------------------------------------------- *)
(* Life cycle of one session under fair scheduling: a handler that has     *)
(* emitted returns, and a Timer that was started fires (it runs in a       *)
(* thread of its own, whatever the handlers do meanwhile).                 *)
(* ---------------------------------------------------------------------- *)

LifecycleNext ==
    \/ HandlerReturns
    \/ \E u \in Teachers : login(u)
    \/ \E x \in StartUuids : start_live_session("T1", "L1", x)
    \/ \E c \in ThreadedSids : handle_connect(c)
    \/ \E c \in ThreadedSids : handle_disconnect(c)
    \/ \E c \in ThreadedSids, s \in ThreadedSessionIds :
          handle_join_session(c, s)
    \/ \E c \in ThreadedSids, s \in ThreadedSessionIds :
          handle_leave_session(c, s, NoValue)
    \/ \E s \in ThreadedSessionIds : TimerFires(s)

LifecycleSpec ==
    /\ Init
    /\ [][LifecycleNext]_vars
    /\ WF_vars(HandlerReturns)
    /\ \A s \in ThreadedSessionIds : SF_vars(TimerFires(s))

\* Session s is in neither map.
Removed(s) ==
    /\ s \notin DOMAIN active_sessions
    /\ s \notin DOMAIN session_participants

(* ---------------------------------------------------------------------- *)
(* C14                                                                     *)
(* ---------------------------------------------------------------------- *)

\* C14: a registry entry disappears only in a cleanup of that session, and
\* the same step leaves the session id in neither map; and every session
\* that is 'ended' is eventually in neither map.
C14_EndedIsRemoved ==
    /\ [][ \A s \in SessionIds :
              ( /\ s \in DOMAIN active_sessions
                /\ s \notin DOMAIN active_sessions' )
              => /\ Handles("cleanup")
                 /\ ev'.session_id = s
                 /\ s \notin DOMAIN session_participants'
        ]_vars
    /\ \A s \in SessionIds :
          (Status(active_sessions, s) = "ended") ~> Removed(s)

\* The timer of a session that ended with nobody in its room has fired, and
\* the session is in neither map.
C14_Witness ==
    /\ ev.kind = "cleanup"
    /\ Removed(ev.session_id)
    /\ timers[ev.session_id] = 0
    /\ room_members[ev.session_id] = {}

(* ---------------------------------------------------------------------- *)
(* C16                                                                     *)
(* ---------------------------------------------------------------------- *)

\* C16: a pending cleanup of S goes away only by firing, and firing removes
\* S from both maps whoever has joined meanwhile; a join_session leaves the
\* pending cleanups as they are; and an ended session that somebody joined
\* again is eventually removed by a cleanup, memberships included.
C16_CleanupNeverCancelled ==
    /\ [][ /\ \A s \in SessionIds :
                  ( timers'[s] < timers[s] )
                  => /\ Handles("cleanup")
                     /\ ev'.session_id = s
                     /\ timers'[s] = timers[s] - 1
                     /\ s \notin DOMAIN active_sessions'
                     /\ s \notin DOMAIN session_participants'
            /\ ( Handles("join_session") => timers' = timers )
        ]_vars
    /\ \A s \in SessionIds :
          ( /\ Status(active_sessions, s) = "ended"
            /\ Members(session_participants, s) # {} )
          ~> ( /\ ev.kind = "cleanup"
               /\ ev.session_id = s
               /\ Removed(s) )

\* The timer of an ended session has fired after somebody joined it again:
\* the session is in neither map, the joiner's connection is still in its
\* room.
C16_Witness ==
    /\ ev.kind = "cleanup"
    /\ Removed(ev.session_id)
    /\ \E c \in room_members[ev.session_id] : conn[c] = "open"

(* ---------------------------------------------------------------------- *)
(* C15                                                                     *)
(* ---------------------------------------------------------------------- *)

\* C15: a join_session for a session that is 'ended' and not yet removed is
\* rejected or returns the session to 'active': no session is ever 'ended'
\* and has a member.
C15_NoMemberOfEndedSession ==
    \A s \in SessionIds :
        Status(active_sessions, s) = "ended"
        => Members(session_participants, s) = {}

(* ---------------------------------------------------------------------- *)
(* C18                                                                     *)
(* ---------------------------------------------------------------------- *)

\* The inbound socket events of the relay.
SocketKinds ==
    {"join_session", "leave_session", "chat_message"} \cup RelayKinds

\* The handler answered its event with one error, sent to the sender only,
\* and emitted nothing else.
AnsweredWithError ==
    /\ Len(emitted) = 1
    /\ emitted[1].event = "error"
    /\ emitted[1].recipients = {ev.sid}

\* C18: a socket event of any kind from a connection without an established
\* identity is answered with an error to that connection and reaches no
\* other connection.
C18_NoIdentityNoEffect ==
    ( /\ ev.kind \in SocketKinds
      /\ Falsy(SessionUser(ev.sid)) )
    => AnsweredWithError

(* ---------------------------------------------------------------------- *)
(* C19                                                                     *)
(* ---------------------------------------------------------------------- *)

\* The event lacks a field its kind requires.
LacksRequiredField(e) ==
    \/ /\ e.kind \in RelayKinds
       /\ \/ Falsy(e.session_id)
          \/ Falsy(e.target_user_id)
          \/ Falsy(e.from_user_id)
          \/ Falsy(e.payload)
    \/ /\ e.kind \in {"leave_session", "chat_message"}
       /\ Falsy(e.session_id)

\* C19: a signaling or session event that lacks a required field is
\* answered with one error event, sent to the sender, and nothing else is
\* emitted.
C19_MissingFieldReported ==
    LacksRequiredField(ev) => AnsweredWithError

(* ---------------------------------------------------------------------- *)
(* C20                                                                     *)
(* ---------------------------------------------------------------------- *)

\* C20: the connections in the Socket.IO room of S, which are those a
\* broadcast into S reaches, are the transport handles of the memberships
\* of S (those of them that are still connected).
C20_RoomIsMembershipHandles ==
    \A s \in SessionIds :
        room_members[s]
           = { h \in MemberHandles(session_participants, s) :
                 conn[h] = "open" }

(* ---------------------------------------------------------------------- *)
(* C17: two sessions of the same lecture, each handler run to completion.  *)
(* ---------------------------------------------------------------------- *)

TwoSessionNext ==
    \/ HandlerReturns
    \/ \E u \in Teachers : login(u)
    \/ \E x \in Uuids : start_live_session("T1", "L1", x)
    \/ \E s \in SessionIds : TimerFires(s)
    \/ \E c \in ThreadedSids : handle_connect(c)
    \/ \E c \in ThreadedSids, s \in SessionIds : handle_join_session(c, s)
    \/ \E c \in ThreadedSids, s \in SessionIds, u \in EventUserIds :
          handle_leave_session(c, s, u)
    \/ \E c \in ThreadedSids, s \in SessionIds, t \in Users,
          b \in RelayBodies : handle_webrtc_offer(c, s, t, b)
    \/ \E c \in ThreadedSids, s \in SessionIds : handle_chat_message(c, s)

TwoSessionSpec == Init /\ [][TwoSessionNext]_vars

\* The events that operate on the session they name.
SessionOpKinds == SocketKinds \cup {"start", "cleanup"}

\* Session s has the same registry entry (status included) and the same
\* membership map before and after the step.
SessionUntouched(s) ==
    /\ (s \in DOMAIN active_sessions') = (s \in DOMAIN active_sessions)
    /\ s \in DOMAIN active_sessions
          => active_sessions'[s] = active_sessions[s]
    /\ (s \in DOMAIN session_participants')
          = (s \in DOMAIN session_participants)
    /\ s \in DOMAIN session_participants
          => session_participants'[s] = session_participants[s]

\* Connection c holds a membership in s2 and held none in s1 before the
\* step nor holds one after it.
MemberOnlyOf(c, s2, s1) ==
    /\ c \in MemberHandles(session_participants', s2)
    /\ c \notin MemberHandles(session_participants, s1)
    /\ c \notin MemberHandles(session_participants', s1)

\* C17: an operation on session S1 leaves the registry entry, the status
\* and the membership map of every other session S2 as they were, and none
\* of the messages it emits for S1 reaches a connection that is a member of
\* S2 only (the announcement of a started session to all students aside).
C17_SessionsAreIndependent ==
    [][ \A s1 \in SessionIds :
          ( /\ Idle
            /\ ev'.kind \in SessionOpKinds
            /\ ev'.session_id = s1 )
          => \A s2 \in SessionIds \ {s1} :
                /\ SessionUntouched(s2)
                /\ ev'.kind # "start"
                      => \A i \in 1..Len(emitted') :
                            \A c \in emitted'[i].recipients \ {ev'.sid} :
                                ~MemberOnlyOf(c, s2, s1)
      ]_vars

(* ---------------------------------------------------------------------- *)
(* C21                                                                     *)
(* ---------------------------------------------------------------------- *)

\* C21: a start request that draws a session id already in the registry
\* fails: no start is answered with the id of an entry that was there
\* before, and such a start leaves the registry as it was.
C21_StartNeverOverwrites ==
    [][ ~ ( /\ Idle
            /\ ev'.kind = "start"
            /\ ev'.session_id \in DOMAIN active_sessions )
      ]_vars

(* ---------------------------------------------------------------------- *)
(* C24                                                                     *)
(* ---------------------------------------------------------------------- *)

\* C24: the status of a registered session is 'active' or 'ended', a
\* session enters the registry as 'active', and no step takes a session
\* from 'ended' back to 'active'.
C24_LifecycleMovesForward ==
    [][ \A s \in SessionIds :
          /\ Status(active_sessions', s) \in {"absent", "active", "ended"}
          /\ ( /\ Status(active_sessions, s) = "absent"
               /\ Status(active_sessions', s) # "absent" )
             => Status(active_sessions', s) = "active"
          /\ Status(active_sessions, s) = "ended"
             => Status(active_sessions', s) # "active"
      ]_vars

(* ---------------------------------------------------------------------- *)
(* C25                                                                     *)
(* ---------------------------------------------------------------------- *)

\* C25: a session that is 'active' and has an entry in the participant
\* tracker has at least one member.
C25_ActiveTrackedSessionHasMember ==
    \A s \in SessionIds :
        ( /\ Status(active_sessions, s) = "active"
          /\ s \in DOMAIN session_participants )
        => Members(session_participants, s) # {}

(* ---------------------------------------------------------------------- *)
(* C26                                                                     *)
(* ---------------------------------------------------------------------- *)

\* C26: the membership a leave_session removes is that of the user whose
\* identity the sending connection carries.
C26_LeaveRemovesOwnMembershipOnly ==
    [][ \A s \in SessionIds, u \in Users :
          ( /\ Handles("leave_session")
            /\ u \in Members(session_participants, s)
            /\ u \notin Members(session_participants', s) )
          => SessionUser(ev'.sid) = u
      ]_vars

(* ---------------------------------------------------------------------- *)
(* C27                                                                     *)
(* ---------------------------------------------------------------------- *)

\* C27: every relayed offer, answer or ICE candidate carries as
\* from_user_id the identity of the connection that sent the event, and
\* that user has a membership in the session relayed into.
C27_RelayCarriesSenderIdentity ==
    ( /\ ev.kind \in RelayKinds
      /\ EmitsOf(emitted, ev.kind) # {} )
    => /\ \A i \in EmitsOf(emitted, ev.kind) :
             emitted[i].from_user_id = SessionUser(ev.sid)
       /\ SessionUser(ev.sid)
             \in Members(session_participants, ev.session_id)

(* ---------------------------------------------------------------------- *)
(* C30                                                                     *)
(* ---------------------------------------------------------------------- *)

\* The session ids get_session_by_lecture can answer with: the registry
\* entries of the lecture that are 'active' (it returns the first it meets).
ActiveSessionsOf(reg, lecture_id) ==
    { s \in DOMAIN reg : /\ reg[s].lecture_id = lecture_id
                         /\ reg[s].status = "active" }

\* C30: at most one session of a lecture is 'active'.
C30_OneActiveSessionPerLecture ==
    \A l \in Lectures :
        Cardinality(ActiveSessionsOf(active_sessions, l)) <= 1

(* ---------------------------------------------------------------------- *)
(* C22                                                                     *)
(* ---------------------------------------------------------------------- *)

\* C22: a registry entry is created only by a start request of a logged-in
\* teacher for a lecture that teacher owns, every registry entry names a
\* lecture and its owner, and a start request for a missing lecture or by
\* somebody who does not own the lecture leaves the registry as it was.
C22_OnlyOwnerStarts ==
    [][ /\ \A s \in DOMAIN active_sessions' :
              /\ active_sessions'[s].lecture_id \in Lectures
              /\ active_sessions'[s].teacher_id
                    = LectureOwner[active_sessions'[s].lecture_id]
              /\ s \notin DOMAIN active_sessions
                    => /\ Handles("start")
                       /\ ev'.user_id \in online_users
                       /\ UserType[ev'.user_id] = "teacher"
                       /\ active_sessions'[s].teacher_id = ev'.user_id
                       /\ active_sessions'[s].lecture_id = ev'.payload
        /\ ( /\ Handles("start")
             /\ IF ev'.payload \in Lectures
                THEN LectureOwner[ev'.payload] # ev'.user_id
                ELSE TRUE )
           => active_sessions' = active_sessions
      ]_vars

\* The logged-in teacher T1, who has a session of the own lecture running,
\* has asked to start a session for L2, a lecture of another teacher, and
\* was refused.
C22_Witness ==
    /\ ev.kind = "start"
    /\ ev.user_id = "T1"
    /\ "T1" \in online_users
    /\ ev.payload = "L2"
    /\ ev.session_id = NoValue
    /\ emitted = << >>
    /\ \E s \in DOMAIN active_sessions :
          active_sessions[s].teacher_id = "T1"

(* ---------------------------------------------------------------------- *)
(* C23: checked where a tracker entry without a registry entry can arise,  *)
(* with cleanup_session running in its Timer thread.                       *)
(* ---------------------------------------------------------------------- *)

\* C23: the first half of a cleanup (lines 101-102) leaves the session id
\* out of the registry and changes nothing when it is not there; the second
\* half (lines 103-104) does the same for the participant tracker, so a
\* cleanup of a removed or unknown id changes neither map; and a
\* leave_session for a session absent from the registry creates no registry
\* entry, starts no timer and emits no session_ended, whatever count it
\* reaches.
C23_RemoveIdempotentEndNoOpIfAbsent ==
    [][ \A s \in SessionIds :
          /\ timers'[s] < timers[s]
                => /\ s \notin DOMAIN active_sessions'
                   /\ s \notin DOMAIN active_sessions
                         => active_sessions' = active_sessions
                   /\ session_participants' = session_participants
          /\ ( Running(s) /\ s \notin DOMAIN thr' )
                => /\ s \notin DOMAIN session_participants'
                   /\ s \notin DOMAIN session_participants
                         => session_participants' = session_participants
                   /\ active_sessions' = active_sessions
          /\ ( /\ Handles("leave_session")
               /\ ev'.session_id = s
               /\ s \notin DOMAIN active_sessions )
                => /\ active_sessions' = active_sessions
                   /\ timers' = timers
                   /\ EmitsOf(emitted', "session_ended") = {}
      ]_vars

\* A leave has removed the last member of a session that is not in the
\* registry: user_left reports 0, nothing else was emitted and no cleanup
\* is pending.
C23_Witness ==
    /\ ev.kind = "leave_session"
    /\ ev.session_id \in SessionIds
    /\ ev.session_id \notin DOMAIN active_sessions
    /\ Len(emitted) = 1
    /\ emitted[1].event = "user_left"
    /\ emitted[1].participants_count = 0
    /\ timers[ev.session_id] = 0

(* ---------------------------------------------------------------------- *)
(* Logging in and out, and the role guards of the routes                   *)
(* ---------------------------------------------------------------------- *)

\* E-mail and password of the accounts of the data store.
AccountEmail == [T1 |-> "t1@x", U1 |-> "u1@x"]

AccountPassword == [T1 |-> "pw_T1", U1 |-> "pw_U1"]

\* The single hardcoded admin of login().
AdminEmail == "Admin@gmail.com"

AdminPassword == "Admin@#1234"

AdminId == "admin"

\* session['user_type'] of a cookie session holding user u.
SessionType(u) ==
    IF Falsy(u) THEN NoValue
    ELSE IF u = AdminId THEN "admin"
    ELSE UserType[u]

\* The JSON bodies posted to /api/login; NoValue is a missing key.
LoginData ==
    [ user_type : {"teacher", "student", "admin", "guest", NoValue},
      email     : {"t1@x", "u1@x", AdminEmail, "nobody@x", NoValue},
      password  : {"pw_T1", "pw_U1", AdminPassword, NoValue} ]

\* db.get_teacher_by_email(email) / db.get_student_by_email(email): the
\* accounts of that type with that e-mail (none: the lookup returns None).
UserByEmail(user_type, email) ==
    { u \in Users : UserType[u] = user_type /\ AccountEmail[u] = email }

\* A password check that accepts every password.
PasswordOk_Always(u, password) == TRUE

\* check_password_hash(user['password_hash'], password)
PasswordOk(u, password) == AccountPassword[u] = password

\* The status login() answers with and the user it logs in (NoValue: none).
LoginResult(data) ==
    IF Falsy(data.email) \/ Falsy(data.password) \/ Falsy(data.user_type)
    THEN [ status |-> "400", user |-> NoValue ]
    ELSE IF data.user_type = "admin"
    THEN IF data.email # AdminEmail \/ data.password # AdminPassword
         THEN [ status |-> "401", user |-> NoValue ]
         ELSE [ status |-> "200", user |-> AdminId ]
    ELSE IF data.user_type \notin {"teacher", "student"}
    THEN [ status |-> "400", user |-> NoValue ]
    ELSE LET found == UserByEmail(data.user_type, data.email) IN
         IF found = {}
         THEN [ status |-> "404", user |-> NoValue ]
         ELSE LET u == CHOOSE x \in found : TRUE IN
              IF ~PasswordOk(u, data.password)
              THEN [ status |-> "401", user |-> NoValue ]
              ELSE [ status |-> "200", user |-> u ]

\* The HTTP response a route returns to browser b.
Respond(b, status) ==
    << [ BlankMsg EXCEPT !.event = "response", !.room = b,
                         !.recipients = {b}, !.message = status ] >>

\* POST /api/login from browser b with body data.
login_request(b, data) ==
    LET r == LoginResult(data) IN
    /\ Idle
    /\ ev' = [ NoEvent EXCEPT !.kind = "login_request", !.sid = b,
                              !.target_user_id = data.user_type,
                              !.from_user_id = data.email,
                              !.payload = data.password ]
    /\ emitted' = Respond(b, r.status)
    /\ IF Falsy(r.user)
       THEN UNCHANGED << cookies, online_users >>
       ELSE /\ cookies' = [ cookies EXCEPT ![b] = r.user ]
            /\ online_users' = online_users \cup {r.user}
    /\ UNCHANGED << active_sessions, session_participants, room_members,
                    conn, timers, ended_emits, thr >>

\* POST /api/logout from browser b.
logout_request(b) ==
    /\ Idle
    /\ ev' = [ NoEvent EXCEPT !.kind = "logout_request", !.sid = b,
                              !.user_id = cookies[b] ]
    /\ emitted' = Respond(b, "200")
    /\ online_users' = online_users \ {cookies[b]}
    /\ cookies' = [ cookies EXCEPT ![b] = NoValue ]
    /\ UNCHANGED << active_sessions, session_participants, room_members,
                    conn, timers, ended_emits, thr >>

\* POST /api/force-logout from browser b with body {user_id: target}.
force_logout(b, target_user_id) ==
    LET status == IF SessionType(cookies[b]) # "admin" THEN "403"
                  ELSE IF Falsy(target_user_id) THEN "400"
                  ELSE "200"
    IN
    /\ Idle
    /\ ev' = [ NoEvent EXCEPT !.kind = "force_logout", !.sid = b,
                              !.user_id = cookies[b],
                              !.target_user_id = target_user_id ]
    /\ emitted' = Respond(b, status)
    /\ online_users' = IF status = "200"
                       THEN online_users \ {target_user_id}
                       ELSE online_users
    /\ UNCHANGED << active_sessions, session_participants, room_members,
                    conn, timers, ended_emits, thr, cookies >>

\* The role each guard decorator asks for.
GuardRole ==
    [ teacher_required     |-> "teacher", api_teacher_required |-> "teacher",
      student_required     |-> "student", api_student_required |-> "student",
      admin_required       |-> "admin",   api_admin_required   |-> "admin" ]

Guards == DOMAIN GuardRole

\* The guards with an `if user_id not in online_users` test (the second
\* definition of admin_required, at line 250, is the one the routes get).
ChecksOnlineUsers ==
    {"teacher_required", "api_teacher_required", "student_required",
     "admin_required"}

\* The page guards, which call session.clear() before they redirect.
ClearsSession == {"teacher_required", "student_required", "admin_required"}

\* What a guard answers to a request whose cookie session holds user u:
\* "200" stands for calling the route.
GuardStatus(guard, u) ==
    IF Falsy(u)
    THEN IF guard \in ClearsSession THEN "302" ELSE "401"
    ELSE IF SessionType(u) # GuardRole[guard]
    THEN IF guard \in ClearsSession THEN "302" ELSE "403"
    ELSE IF guard \in ChecksOnlineUsers /\ u \notin online_users
    THEN IF guard \in ClearsSession THEN "302" ELSE "401"
    ELSE "200"

\* A request from browser b to a route behind the given guard.
guarded_request(b, guard) ==
    LET status == GuardStatus(guard, cookies[b]) IN
    /\ Idle
    /\ ev' = [ NoEvent EXCEPT !.kind = "request", !.sid = b,
                              !.user_id = cookies[b], !.payload = guard ]
    /\ emitted' = Respond(b, status)
    /\ cookies' = IF status # "200" /\ guard \in ClearsSession
                  THEN [ cookies EXCEPT ![b] = NoValue ]
                  ELSE cookies
    /\ UNCHANGED << active_sessions, session_participants, online_users,
                    room_members, conn, timers, ended_emits, thr >>

AuthNext ==
    \/ HandlerReturns
    \/ \E b \in Browsers, data \in LoginData : login_request(b, data)
    \/ \E b \in Browsers : logout_request(b)
    \/ \E b \in Browsers, t \in EventUserIds : force_logout(b, t)
    \/ \E b \in Browsers, g \in Guards : guarded_request(b, g)

AuthSpec == Init /\ [][AuthNext]_vars

(* ---------------------------------------------------------------------- *)
(* C28                                                                     *)
(* ---------------------------------------------------------------------- *)

\* C28: a request to a role-guarded route whose cookie session holds a user
\* who is not in online_users (the cookie was issued by a login, the user
\* was removed since by a logout or a force-logout) is rejected.
C28_LoggedOutCookieRejected ==
    ( /\ ev.kind = "request"
      /\ ~Falsy(ev.user_id)
      /\ ev.user_id \notin online_users )
    => emitted[1].message # "200"

(* ---------------------------------------------------------------------- *)
(* C29                                                                     *)
(* ---------------------------------------------------------------------- *)

\* The login request e carries the type, e-mail and password of user u.
CredentialsOf(e, u) ==
    IF u = AdminId
    THEN /\ e.target_user_id = "admin"
         /\ e.from_user_id = AdminEmail
         /\ e.payload = AdminPassword
    ELSE /\ e.target_user_id = UserType[u]
         /\ e.from_user_id = AccountEmail[u]
         /\ e.payload = AccountPassword[u]

\* C29: a login request that does not carry the credentials of an account
\* leaves online_users and the cookie session of its browser as they were,
\* and a user id enters online_users only in a login request carrying that
\* user's credentials.
C29_FailedLoginChangesNothing ==
    [][ /\ ( /\ Handles("login_request")
             /\ \A u \in Users \cup {AdminId} : ~CredentialsOf(ev', u) )
           => /\ online_users' = online_users
              /\ cookies' = cookies
              /\ emitted'[1].message # "200"
        /\ \A u \in Users \cup {AdminId} :
              ( u \in online_users' /\ u \notin online_users )
              => /\ Handles("login_request")
                 /\ CredentialsOf(ev', u)
      ]_vars

\* A browser logged in as U1 has posted T1's e-mail with a wrong password as
\* a teacher login: it was answered 401 and its cookie session still holds
\* U1, and T1 is not online.
C29_Witness ==
    /\ ev.kind = "login_request"
    /\ ev.target_user_id = "teacher"
    /\ ev.from_user_id = "t1@x"
    /\ ev.payload = "pw_U1"
    /\ emitted[1].message = "401"
    /\ cookies[ev.sid] = "U1"
    /\ "U1" \in online_users
    /\ "T1" \notin online_users

====
